---- MODULE Spec2Model ----
(***************************************************************************)
(* The Express server of turkce-metin-isleme (src/unnamed/part_001, lines  *)
(* 95-269): the in-memory store `analyses` and the GET / POST / PUT /      *)
(* DELETE handlers of /api/analyze.  POST and PUT suspend at               *)
(* `await ai.models.generateContent(...)`; every other request may run     *)
(* while they are suspended, so each of the two is split at the await.     *)
(* The React component App (part_001, lines 1-93) with analyzeText         *)
(* (src/unnamed/part_000) and AnalysisResult is the browser side: its      *)
(* fetch is a POST to the same server.                                     *)
(***************************************************************************)
EXTENDS Integers, Sequences, FiniteSets, Bags, TLC

\* ------------------------------------------------------------------ bounds
MaxIds == 2        \* randomUUID() calls in one run
MaxClock == 1      \* the latest time new Date() reads in one run
MaxInFlight == 1   \* requests suspended at the provider call at one time

\* --------------------------------------------------------------- JS values
Undefined == [type |-> "undefined"]
Str(s) == [type |-> "string", val |-> s]
Text(cs) == [type |-> "string", chars |-> cs]
Num(n) == [type |-> "number", num |-> n]

\* the n-th value of randomUUID() that a record is built from; no value comes
\* twice.  A value drawn at line 178 and dropped when line 179 throws is seen by
\* nobody and is not counted.
UUID(n) == "u" \o ToString(n)

\* ids a client may send: every id the server can issue, one it never issues,
\* the empty string, or nothing
IdInputs ==
    {Undefined, Str(""), Str("doesnotexist")} \cup {Str(UUID(n)) : n \in 1..MaxIds}

\* texts a client may send: nothing, "", " ", " x", or a number
TextInputs == {Undefined, Text(<<>>), Text(<<" ">>), Text(<<" ", "x">>), Num(7)}

\* what the provider's reply text may be: two JSON objects and a text that is no JSON
ReplyTexts == {<<"{", "a", "}">>, <<"{", "b", "}">>, <<"<", "a", ">">>}

\* outcomes of `await ai.models.generateContent(...)`
ProviderOutcomes ==
    {[kind |-> "throw"]} \cup {[kind |-> "text", text |-> t] : t \in ReplyTexts}

\* ------------------------------------------------------- pure JS functions
\* JS truthiness of an id value: undefined and "" are falsy
Truthy(v) == v.type = "string" /\ v.val # ""

\* a || b
OrElse(a, b) == IF Truthy(a) THEN a ELSE b

RECURSIVE TrimStart(_)
TrimStart(cs) ==
    IF cs # <<>> /\ Head(cs) = " " THEN TrimStart(Tail(cs)) ELSE cs

RECURSIVE TrimEnd(_)
TrimEnd(cs) ==
    IF cs # <<>> /\ cs[Len(cs)] = " " THEN TrimEnd(SubSeq(cs, 1, Len(cs) - 1)) ELSE cs

\* String.prototype.trim
Trim(cs) == TrimEnd(TrimStart(cs))

\* !text || typeof text !== 'string' || text.trim() === ''
TextInvalid(t) ==
    \/ t.type = "undefined"
    \/ t.type # "string"
    \/ t.chars = <<>>
    \/ Trim(t.chars) = <<>>

\* JSON.parse succeeds on the text
JSONParses(t) == Len(t) = 3 /\ t[1] = "{" /\ t[3] = "}"

\* JSON.parse(response.text), where it succeeds
JSONParse(t) ==
    [ozet |-> t[2], temelFikirler |-> <<t[2]>>, duyguTonu |-> "Notr",
     yenidenYazilmisMetin |-> t[2]]

\* ------------------------------------------ Map<string, any>, in insertion order
MapKeys(m) == [i \in 1..Len(m) |-> m[i].key]
MapValues(m) == [i \in 1..Len(m) |-> m[i].value]
MapHas(m, k) == \E i \in 1..Len(m) : m[i].key = k
MapIndex(m, k) == CHOOSE i \in 1..Len(m) : m[i].key = k
MapGet(m, k) == m[MapIndex(m, k)].value
\* a Map that moves a key it already holds to the end
MapSetMovesToEnd(m, k, v) ==
    Append(SelectSeq(m, LAMBDA e : e.key # k), [key |-> k, value |-> v])
MapSet(m, k, v) ==
    IF MapHas(m, k)
    THEN [m EXCEPT ![MapIndex(m, k)] = [key |-> k, value |-> v]]
    ELSE Append(m, [key |-> k, value |-> v])
MapDelete(m, k) == SelectSeq(m, LAMBDA e : e.key # k)

\* ----------------------------------------------------------------- state
VARIABLES
    analyses,   \* the store: Map from id to {id, timestamp, analysis}
    apiKey,     \* whether process.env.GEMINI_API_KEY is set
    clock,      \* what new Date() read last
    uuids,      \* how many values randomUUID() has returned
    pending,    \* bag of handlers suspended at the provider call
    last,       \* the response the running handler has just sent, if any
    inserted,   \* history: the ids of the 201 responses, in order
    deleted,    \* history: the ids a DELETE has answered 204 for
    inputText,       \* App: useState(exampleText)
    analysisResult,  \* App: useState(null)
    isLoading,       \* App: useState(false)
    error,           \* App: useState(null)
    calls,           \* App: the analyzeText calls that have not settled, oldest first
    mounted          \* App: whether the component tree is still on the page

vars == <<analyses, apiKey, clock, uuids, pending, last, inserted, deleted,
          inputText, analysisResult, isLoading, error, calls, mounted>>

\* the state of the browser side
appVars == <<inputText, analysisResult, isLoading, error, calls, mounted>>

\* JS null
Null == [type |-> "null"]

\* line 8 of App: the text the textarea starts with
ExampleText == <<"s">>

NoResponse == [method |-> "none", path |-> "none", status |-> 0]

\* the status line of a response and the path through the handler that sent it
Response(method, path, status) == [method |-> method, path |-> path, status |-> status]

\* lines 134, 217, 260
NotFoundMessage(id) == [message |-> "Analysis with id " \o id \o " not found."]

\* line 107 (the store), dotenv (the key): the process as it starts
Init ==
    /\ analyses = <<>>
    /\ apiKey \in BOOLEAN
    /\ clock = 0
    /\ uuids = 0
    /\ pending = EmptyBag
    /\ last = NoResponse
    /\ inserted = <<>>
    /\ deleted = {}
    /\ inputText = ExampleText
    /\ analysisResult = Null
    /\ isLoading = FALSE
    /\ error = Null
    /\ calls = <<>>
    /\ mounted = TRUE

\* a handler runs from its entry, or from its await, to its next await or its
\* end in one turn of the event loop; no other handler runs inside that turn
Idle == last = NoResponse

\* the turn of the handler that sent `last` ends
EndTurn ==
    /\ ~Idle
    /\ last' = NoResponse
    /\ UNCHANGED <<analyses, apiKey, clock, uuids, pending, inserted, deleted>>

\* what new Date() may read: the wall clock never runs backwards
Times == clock..MaxClock

\* ------------------------------------------------------------------- GET
\* lines 131-137, 141
GetStatus(m, q) ==
    IF Truthy(q) THEN (IF MapHas(m, q.val) THEN 200 ELSE 404) ELSE 200

\* line 140
Summary(a) == [id |-> a.id, timestamp |-> a.timestamp]

\* lines 132-141
GetBody(m, q) ==
    IF Truthy(q)
    THEN IF MapHas(m, q.val) THEN MapGet(m, q.val) ELSE NotFoundMessage(q.val)
    ELSE [analyses |-> [i \in 1..Len(m) |-> Summary(MapValues(m)[i])]]

GetPath(m, q) ==
    IF Truthy(q) THEN (IF MapHas(m, q.val) THEN "one" ELSE "notFound") ELSE "list"

\* lines 129-142
Get(q) ==
    /\ Idle
    /\ last' = Response("GET", GetPath(analyses, q), GetStatus(analyses, q))
    /\ UNCHANGED <<analyses, apiKey, clock, uuids, pending, inserted, deleted>>

\* ------------------------------------------------------------------ POST
ApiKeyMessage == [message |-> "Internal Server Error: API key not configured."]
TextMessage == [message |-> "\"text\" field is required and cannot be empty."]

\* a POST that never looks at the credential
PostCheckSkipsKey(key, text) == IF TextInvalid(text) THEN "badText" ELSE "call"

\* lines 146-152: which way the handler goes before the provider call
PostCheck(key, text) ==
    IF ~key THEN "noKey"
    ELSE IF TextInvalid(text) THEN "badText"
    ELSE "call"

\* lines 147, 151: the status of a POST that answers before the provider call
PostEarlyStatus(key, text) == IF PostCheck(key, text) = "noKey" THEN 500 ELSE 400

\* lines 147, 151
PostEarlyBody(key, text) ==
    IF PostCheck(key, text) = "noKey" THEN ApiKeyMessage ELSE TextMessage

POSTing == [method |-> "POST", id |-> ""]

\* lines 144-174: the handler up to `await ai.models.generateContent(...)`
PostBegin(text) ==
    /\ Idle
    /\ \/ /\ PostCheck(apiKey, text) # "call"
          /\ last' = Response("POST", PostCheck(apiKey, text), PostEarlyStatus(apiKey, text))
          /\ UNCHANGED pending
       \/ /\ PostCheck(apiKey, text) = "call"
          /\ BagCardinality(pending) < MaxInFlight
          /\ pending' = pending (+) SetToBag({POSTing})
          /\ last' = NoResponse
    /\ UNCHANGED <<analyses, apiKey, clock, uuids, inserted, deleted>>

\* line 180: the record a POST builds
FullResponse(id, now, text) ==
    [id |-> id, timestamp |-> now, analysis |-> JSONParse(text)]

\* lines 177-193: the way a POST takes once the provider call settled
PostPath(r) ==
    IF r.kind = "throw" THEN "throw"
    ELSE IF JSONParses(r.text) THEN "created"
    ELSE "raw"

\* lines 184, 188, 192: the status a POST answers with
PostStatus(r) ==
    IF PostPath(r) = "throw" THEN 500
    ELSE IF PostPath(r) = "created" THEN 201
    ELSE 200

\* lines 184, 188, 192: the body a POST answers with
PostBody(r, id, now) ==
    IF PostPath(r) = "throw"
    THEN [message |-> "Failed to analyze text.", error |-> "provider error"]
    ELSE IF PostPath(r) = "created" THEN FullResponse(id, now, r.text)
    ELSE [raw |-> r.text]

\* a POST that stores a record stamped apart from the one it answers with
PostStoreStampsAgain(m, r, id, now) ==
    IF PostPath(r) = "created" THEN MapSet(m, id, FullResponse(id, 0, r.text)) ELSE m

\* lines 179-182: the store once the provider call settled
PostStore(m, r, id, now) ==
    IF PostPath(r) = "created" THEN MapSet(m, id, FullResponse(id, now, r.text)) ELSE m

\* lines 178-180: one more value of randomUUID() is in use once a record is built
PostUuids(n, r) == IF PostPath(r) = "created" THEN n + 1 ELSE n

\* line 178: the id randomUUID() returns when n values were returned before
AnalysisId(n) == UUID(n + 1)

\* line 180: new Date() is reached only when JSON.parse returned
PostClock(c, r, now) == IF PostPath(r) = "created" THEN now ELSE c

\* lines 176-193: the handler after the provider call settled with r, at time now
PostResume(r, now) ==
    /\ Idle
    /\ POSTing \in BagToSet(pending)
    /\ PostUuids(uuids, r) <= MaxIds
    /\ pending' = pending (-) SetToBag({POSTing})
    /\ uuids' = PostUuids(uuids, r)
    /\ analyses' = PostStore(analyses, r, AnalysisId(uuids), now)
    /\ last' = Response("POST", PostPath(r), PostStatus(r))
    /\ inserted' = IF PostStatus(r) = 201
                   THEN Append(inserted, AnalysisId(uuids)) ELSE inserted
    /\ clock' = PostClock(clock, r, now)
    /\ UNCHANGED <<apiKey, deleted>>

\* ------------------------------------------------------------------- PUT
IdMessage == [message |-> "\"id\" field is required."]

\* a PUT that looks the id up before it checks that there is one
PutCheckLooksUpFirst(m, key, id, text) ==
    IF ~(Truthy(id) /\ MapHas(m, id.val)) THEN "notFound"
    ELSE IF TextInvalid(text) THEN "badText"
    ELSE IF ~key THEN "noKey"
    ELSE "call"

\* lines 216-224: which way the handler goes before the provider call
PutCheck(m, key, id, text) ==
    IF ~Truthy(id) THEN "noId"
    ELSE IF ~MapHas(m, id.val) THEN "notFound"
    ELSE IF TextInvalid(text) THEN "badText"
    ELSE IF ~key THEN "noKey"
    ELSE "call"

\* lines 216-223: the status of a PUT that answers before the provider call
PutEarlyStatus(m, key, id, text) ==
    IF PutCheck(m, key, id, text) = "notFound" THEN 404
    ELSE IF PutCheck(m, key, id, text) = "noKey" THEN 500
    ELSE 400

\* lines 216-223
PutEarlyBody(m, key, id, text) ==
    IF PutCheck(m, key, id, text) = "noId" THEN IdMessage
    ELSE IF PutCheck(m, key, id, text) = "notFound" THEN NotFoundMessage(id.val)
    ELSE IF PutCheck(m, key, id, text) = "badText" THEN TextMessage
    ELSE ApiKeyMessage

PUTting(id) == [method |-> "PUT", id |-> id]

\* lines 213-243: the handler up to `await ai.models.generateContent(...)`
PutBegin(id, text) ==
    /\ Idle
    /\ \/ /\ PutCheck(analyses, apiKey, id, text) # "call"
          /\ last' = Response("PUT", PutCheck(analyses, apiKey, id, text),
                              PutEarlyStatus(analyses, apiKey, id, text))
          /\ UNCHANGED pending
       \/ /\ PutCheck(analyses, apiKey, id, text) = "call"
          /\ BagCardinality(pending) < MaxInFlight
          /\ pending' = pending (+) SetToBag({PUTting(id.val)})
          /\ last' = NoResponse
    /\ UNCHANGED <<analyses, apiKey, clock, uuids, inserted, deleted>>

\* line 246: the record a PUT builds
Updated(id, now, text) ==
    [id |-> id, timestamp |-> now, analysis |-> JSONParse(text)]

\* lines 245-252: the way a PUT takes once the provider call settled
PutPath(r) ==
    IF r.kind = "throw" THEN "throw"
    ELSE IF JSONParses(r.text) THEN "updated"
    ELSE "unparseable"

\* lines 248, 251: the status a PUT answers with
PutStatus(r) == IF PutPath(r) = "updated" THEN 200 ELSE 500

\* lines 248, 251: the body a PUT answers with
PutBody(r, id, now) ==
    IF PutPath(r) = "throw"
    THEN [message |-> "Failed to update analysis.", error |-> "provider error"]
    ELSE IF PutPath(r) = "updated" THEN Updated(id, now, r.text)
    ELSE [message |-> "Failed to update analysis.", error |-> "Unexpected token"]

\* a PUT that drops the record when the provider's reply is of no use
PutStoreDropsOnFailure(m, r, id, now) ==
    IF PutPath(r) = "updated" THEN MapSet(m, id, Updated(id, now, r.text))
    ELSE SelectSeq(m, LAMBDA e : e.key # id)

\* lines 245-247: the store once the provider call settled
PutStore(m, r, id, now) ==
    IF PutPath(r) = "updated" THEN MapSet(m, id, Updated(id, now, r.text)) ELSE m

\* line 246: new Date() is reached only when JSON.parse returned
PutClock(c, r, now) == IF PutPath(r) = "updated" THEN now ELSE c

\* lines 245-252: the handler after the provider call settled with r, at time now
PutResume(id, r, now) ==
    /\ Idle
    /\ PUTting(id) \in BagToSet(pending)
    /\ pending' = pending (-) SetToBag({PUTting(id)})
    /\ analyses' = PutStore(analyses, r, id, now)
    /\ last' = Response("PUT", PutPath(r), PutStatus(r))
    /\ clock' = PutClock(clock, r, now)
    /\ UNCHANGED <<apiKey, uuids, inserted, deleted>>

\* ---------------------------------------------------------------- DELETE
DeleteIdMessage == [message |-> "\"id\" parameter or body field is required."]

\* line 258: (req.query.id) || (req.body && req.body.id)
DeleteId(qid, bid) == OrElse(qid, bid)

\* lines 259-264: which way the handler goes
DeleteCheck(m, id) ==
    IF ~Truthy(id) THEN "noId"
    ELSE IF ~MapHas(m, id.val) THEN "notFound"
    ELSE "delete"

\* lines 259-264
DeleteStatus(m, id) ==
    IF DeleteCheck(m, id) = "noId" THEN 400
    ELSE IF DeleteCheck(m, id) = "notFound" THEN 404
    ELSE 204

\* line 262
DeleteStore(m, id) ==
    IF DeleteCheck(m, id) = "delete" THEN MapDelete(m, id.val) ELSE m

\* lines 256-269
Delete(qid, bid) ==
    /\ Idle
    /\ analyses' = DeleteStore(analyses, DeleteId(qid, bid))
    /\ last' = Response("DELETE", DeleteCheck(analyses, DeleteId(qid, bid)),
                        DeleteStatus(analyses, DeleteId(qid, bid)))
    /\ deleted' = IF DeleteStatus(analyses, DeleteId(qid, bid)) = 204
                  THEN deleted \cup {DeleteId(qid, bid).val} ELSE deleted
    /\ UNCHANGED <<apiKey, clock, uuids, pending, inserted>>

\* ids a client may send in the body of a DELETE whose query carries q: any
\* where the body decides, two where the query does
DeleteBodyIds(q) == IF Truthy(q) THEN {Undefined, Str("doesnotexist")} ELSE IdInputs

\* ids of the handlers that may be suspended in a PUT
IssuedIds == {UUID(n) : n \in 1..MaxIds}

\* the server under requests of any client; no page of App is open
Next ==
    \/ EndTurn /\ UNCHANGED appVars
    \/ \E q \in IdInputs : Get(q) /\ UNCHANGED appVars
    \/ \E t \in TextInputs : PostBegin(t) /\ UNCHANGED appVars
    \/ \E r \in ProviderOutcomes : \E now \in Times :
          PostResume(r, now) /\ UNCHANGED appVars
    \/ \E i \in IdInputs : \E t \in TextInputs : PutBegin(i, t) /\ UNCHANGED appVars
    \/ \E i \in IssuedIds : \E r \in ProviderOutcomes : \E now \in Times :
          PutResume(i, r, now) /\ UNCHANGED appVars
    \/ \E q \in IdInputs : \E b \in DeleteBodyIds(q) :
          Delete(q, b) /\ UNCHANGED appVars

Spec == Init /\ [][Next]_vars

\* ------------------------------------------------ bounds of the browser side
MaxCalls == 2      \* analyzeText calls that have not settled, at one time

\* --------------------------------------------------------------- analyzeText
\* texts the user may leave in the textarea: "", " ", " x", "x ", or the example
AppTexts == {<<>>, <<" ">>, <<" ", "x">>, <<"x", " ">>, ExampleText}

\* a fetch whose request is on its way to the server
Sent(text) == [stage |-> "sent", text |-> text]
\* a fetch whose request the server holds at its provider call
AtServer == [stage |-> "server"]
\* a fetch whose response has arrived
Answered(status, body) == [stage |-> "response", status |-> status, body |-> body]
\* a fetch that rejected: the request never reached the server
Failed == [stage |-> "failed"]

\* part_000 line 15: response.ok
ResponseOk(status) == status \in 200..299

\* response.json() returns: the body res.json() wrote is JSON; the body
\* res.send(response.text) wrote is the provider's text as it came
ResponseJsonParses(body) == "raw" \in DOMAIN body => JSONParses(body.raw)

\* response.json(), where it returns
ResponseJson(body) == IF "raw" \in DOMAIN body THEN JSONParse(body.raw) ELSE body

\* part_000 line 18: errorData?.message || `API isteği durumu: ${response.status}`
ErrorMessage(status, body) ==
    IF ResponseJsonParses(body) /\ "message" \in DOMAIN ResponseJson(body)
          /\ ResponseJson(body).message # ""
    THEN ResponseJson(body).message
    ELSE "API istegi durumu: " \o ToString(status)

\* part_000 line 29: every Error caught is thrown again behind this prefix
Rethrown(message) == "Metin analizi sirasinda bir hata olustu: " \o message

Resolved(value) == [kind |-> "resolved", value |-> value]
Rejected(message) == [kind |-> "rejected", message |-> message]

\* part_000 lines 3-33: how analyzeText settles once its fetch has settled as c
AnalyzeText(c) ==
    IF c.stage = "failed" THEN Rejected(Rethrown("Failed to fetch"))
    ELSE IF ~ResponseOk(c.status) THEN Rejected(Rethrown(ErrorMessage(c.status, c.body)))
    ELSE IF ~ResponseJsonParses(c.body) THEN Rejected(Rethrown("Unexpected token"))
    ELSE Resolved(ResponseJson(c.body))

\* ------------------------------------------------------------ AnalysisResult
\* the fields AnalysisResult reads from its `result` prop
AnalysisFields == {"ozet", "temelFikirler", "duyguTonu", "yenidenYazilmisMetin"}

\* AnalysisResult.tsx lines 12, 36: result.temelFikirler.map and
\* result.duyguTonu.toLowerCase throw a TypeError on undefined
AnalysisResultRenders(result) == {"temelFikirler", "duyguTonu"} \subseteq DOMAIN result

\* App line 82: {analysisResult && <AnalysisResult result={analysisResult} />};
\* there is no error boundary, so a render that throws takes the tree down
Renders(result) == result = Null \/ AnalysisResultRenders(result)

\* ----------------------------------------------------------------------- App
\* line 59: onChange of the textarea, which line 62 disables while loading
SetInputText(t) ==
    /\ mounted
    /\ ~isLoading
    /\ inputText' = t
    /\ UNCHANGED <<analysisResult, isLoading, error, calls, mounted>>
    /\ UNCHANGED <<analyses, apiKey, clock, uuids, pending, last, inserted, deleted>>

\* a button that stays enabled while a call is in flight
ButtonDisabledOnBlankOnly(loading, text) == Trim(text) = <<>>

\* line 67: disabled={isLoading || !inputText.trim()}
ButtonDisabled(loading, text) == loading \/ Trim(text) = <<>>

\* lines 14-24: handleAnalysis up to `await analyzeText(inputText)`
HandleAnalysis ==
    /\ IF Trim(inputText) = <<>>
       THEN /\ error' = Str("Lutfen analiz edilecek bir metin girin.")
            /\ UNCHANGED <<analysisResult, isLoading, calls>>
       ELSE /\ Len(calls) < MaxCalls
            /\ isLoading' = TRUE
            /\ error' = Null
            /\ analysisResult' = Null
            /\ calls' = Append(calls, Sent(inputText))
    /\ UNCHANGED <<inputText, mounted>>
    /\ UNCHANGED <<analyses, apiKey, clock, uuids, pending, last, inserted, deleted>>

\* line 66: onClick of the button, which does not fire while it is disabled
Click ==
    /\ mounted
    /\ ~ButtonDisabled(isLoading, inputText)
    /\ HandleAnalysis

\* the calls without the i-th
Without(cs, i) == SubSeq(cs, 1, i - 1) \o SubSeq(cs, i + 1, Len(cs))

\* part_000 line 7: the fetch rejects, the request never reaches the server
FetchFails(i) ==
    /\ calls[i].stage = "sent"
    /\ calls' = [calls EXCEPT ![i] = Failed]
    /\ UNCHANGED <<inputText, analysisResult, isLoading, error, mounted>>
    /\ UNCHANGED <<analyses, apiKey, clock, uuids, pending, last, inserted, deleted>>

\* part_000 lines 7-13 and part_001 lines 144-174: the request
\* POST /api/analyze {text} reaches the server
FetchPostBegin(i) ==
    /\ calls[i].stage = "sent"
    /\ PostBegin(Text(calls[i].text))
    /\ calls' = [calls EXCEPT ![i] =
                    IF PostCheck(apiKey, Text(calls[i].text)) = "call"
                    THEN AtServer
                    ELSE Answered(PostEarlyStatus(apiKey, Text(calls[i].text)),
                                  PostEarlyBody(apiKey, Text(calls[i].text)))]
    /\ UNCHANGED <<inputText, analysisResult, isLoading, error, mounted>>

\* part_001 lines 176-193: the server answers the request of the i-th call
FetchPostResume(i, r, now) ==
    /\ calls[i].stage = "server"
    /\ PostResume(r, now)
    /\ calls' = [calls EXCEPT ![i] =
                    Answered(PostStatus(r), PostBody(r, AnalysisId(uuids), now))]
    /\ UNCHANGED <<inputText, analysisResult, isLoading, error, mounted>>

\* lines 24-34: handleAnalysis once analyzeText settled; the updates of one
\* continuation are rendered together, and set nothing once the tree is gone
HandleAnalysisResume(i) ==
    /\ calls[i].stage \in {"response", "failed"}
    /\ calls' = Without(calls, i)
    /\ IF mounted
       THEN /\ analysisResult' = IF AnalyzeText(calls[i]).kind = "resolved"
                                 THEN AnalyzeText(calls[i]).value ELSE analysisResult
            /\ error' = IF AnalyzeText(calls[i]).kind = "rejected"
                        THEN Str(AnalyzeText(calls[i]).message) ELSE error
            /\ isLoading' = FALSE
            /\ mounted' = Renders(analysisResult')
       ELSE UNCHANGED <<analysisResult, error, isLoading, mounted>>
    /\ UNCHANGED inputText
    /\ UNCHANGED <<analyses, apiKey, clock, uuids, pending, last, inserted, deleted>>

\* one page of App and the server it posts to
AppNext ==
    \/ EndTurn /\ UNCHANGED appVars
    \/ \E t \in AppTexts : SetInputText(t)
    \/ Click
    \/ \E i \in 1..Len(calls) : FetchFails(i)
    \/ \E i \in 1..Len(calls) : FetchPostBegin(i)
    \/ \E i \in 1..Len(calls) : \E r \in ProviderOutcomes : \E now \in Times :
          FetchPostResume(i, r, now)
    \/ \E i \in 1..Len(calls) : HandleAnalysisResume(i)

AppSpec == Init /\ [][AppNext]_vars

\* ================================================================ claims
\* the step is the turn of a handler of `method` that sends a response
Sends(method) == Idle /\ last'.method = method

\* C1: every POST whose text is non-empty, whatever the provider does, either
\* answers 201 with a record whose id was no key of the store and is now stored
\* under that id, or fails (an error status) and leaves the store as it was.
C1_CreateOrFailUnchanged ==
    [][\A r \in ProviderOutcomes, now \in Times :
         PostResume(r, now) =>
           \/ /\ last'.status = 201
              /\ ~MapHas(analyses, PostBody(r, AnalysisId(uuids), now).id)
              /\ analyses' = Append(analyses,
                                    [key |-> PostBody(r, AnalysisId(uuids), now).id,
                                     value |-> PostBody(r, AnalysisId(uuids), now)])
           \/ /\ last'.status >= 400
              /\ analyses' = analyses]_vars

\* C2: once a DELETE has answered 204 for an id, the store holds no record under
\* that id and a GET with that id answers 404, in every interleaving.
C2_DeletedStaysDeleted ==
    \A id \in deleted :
        /\ ~MapHas(analyses, id)
        /\ GetStatus(analyses, Str(id)) = 404

\* C3: a POST or PUT whose text is missing, empty or whitespace-only answers 400
\* and calls the provider zero times, for every store, every id in the PUT body,
\* and with or without the credential.
C3_EmptyTextAlways400 ==
    [][/\ \A t \in TextInputs :
            (TextInvalid(t) /\ PostBegin(t)) => (last'.status = 400 /\ pending' = pending)
       /\ \A i \in IdInputs, t \in TextInputs :
            (TextInvalid(t) /\ PutBegin(i, t)) => (last'.status = 400 /\ pending' = pending)
      ]_vars

\* C6: a POST that reached the provider, when the provider call fails or its
\* reply is no JSON, answers 500 with a JSON object that carries `message`;
\* never a success status, never the provider's raw reply as the body.
C6_ProviderFailureIs500 ==
    [][\A r \in ProviderOutcomes, now \in Times :
         (PostResume(r, now) /\ (r.kind = "throw" \/ ~JSONParses(r.text))) =>
           /\ last'.status = 500
           /\ "message" \in DOMAIN PostBody(r, AnalysisId(uuids), now)
           /\ "raw" \notin DOMAIN PostBody(r, AnalysisId(uuids), now)]_vars

\* the ids of s that are keys of the store m, in the order of s
Present(s, m) == SelectSeq(s, LAMBDA id : MapHas(m, id))

\* C9: GET without an id answers 200 with exactly one {id, timestamp} entry per
\* stored record and no other, in the order the records were first inserted; an
\* update does not move an entry.
C9_ListInFirstInsertionOrder ==
    /\ GetStatus(analyses, Undefined) = 200
    /\ Len(GetBody(analyses, Undefined).analyses) = Len(analyses)
    /\ \A i \in 1..Len(analyses) :
          GetBody(analyses, Undefined).analyses[i] =
             [id |-> analyses[i].key, timestamp |-> analyses[i].value.timestamp]
    /\ [i \in 1..Len(analyses) |-> GetBody(analyses, Undefined).analyses[i].id]
          = Present(inserted, analyses)

\* C4: a PUT that answers 200 for an id the store holds replaces the analysis and
\* the timestamp of that record only: same key, same id, same place, every other
\* record and the set of keys as they were, and a GET with the id then returns
\* the new analysis.
C4_UpdateInPlace ==
    [][(Sends("PUT") /\ last'.status = 200) =>
         \A id \in IssuedIds, r \in ProviderOutcomes, now \in Times :
            (PutResume(id, r, now) /\ MapHas(analyses, id)) =>
               /\ MapKeys(analyses') = MapKeys(analyses)
               /\ MapGet(analyses', id).id = id
               /\ MapGet(analyses', id).timestamp = now
               /\ MapGet(analyses', id).analysis = JSONParse(r.text)
               /\ \A k \in IssuedIds \ {id} :
                     MapHas(analyses, k) => MapGet(analyses', k) = MapGet(analyses, k)
               /\ GetStatus(analyses', Str(id)) = 200
               /\ GetBody(analyses', Str(id)).analysis = PutBody(r, id, now).analysis]_vars

\* a PUT has just answered 200 for the first of two records, none ever deleted
C4_Witness ==
    /\ last = Response("PUT", "updated", 200)
    /\ Len(analyses) = 2
    /\ deleted = {}
    /\ analyses[1].value.timestamp > analyses[2].value.timestamp

\* C5: a PUT for an id the store holds that fails in the Requester (the provider
\* call throws, its reply is no JSON, or the credential is missing) answers 500
\* and leaves the record under that id as it was: id, timestamp and analysis.
C5_FailedUpdateKeepsRecord ==
    [][/\ (Sends("PUT") /\ pending' # pending) =>
            \A id \in IssuedIds, r \in ProviderOutcomes, now \in Times :
               (/\ PutResume(id, r, now)
                /\ (r.kind = "throw" \/ ~JSONParses(r.text))
                /\ MapHas(analyses, id)) =>
                  /\ last'.status = 500
                  /\ MapHas(analyses', id)
                  /\ MapGet(analyses', id) = MapGet(analyses, id)
       /\ (Sends("PUT") /\ ~apiKey) =>
            \A i \in IdInputs, t \in TextInputs :
               (/\ PutBegin(i, t)
                /\ Truthy(i) /\ MapHas(analyses, i.val)
                /\ ~TextInvalid(t) /\ ~apiKey) =>
                  /\ last'.status = 500
                  /\ MapHas(analyses', i.val)
                  /\ MapGet(analyses', i.val) = MapGet(analyses, i.val)]_vars

\* a PUT has just answered 500 on a reply that is no JSON, its record in the store
C5_Witness ==
    /\ last = Response("PUT", "unparseable", 500)
    /\ Len(analyses) >= 1
    /\ deleted = {}

\* C7 as stated: while the credential is absent every POST and every PUT is
\* answered 500, calls the provider zero times and leaves the store as it was.
C7_NoKeyAlways500 ==
    [][(~apiKey /\ (Sends("POST") \/ Sends("PUT"))) =>
         /\ last'.status = 500
         /\ pending' = pending
         /\ analyses' = analyses]_vars

\* C7 as amended: while the credential is absent, every POST or PUT whose input
\* passes validation (non-empty text and, for a PUT, an id the store holds) is
\* answered 500, a PUT whose input does not is answered 400 or 404, and no POST
\* or PUT calls the provider or changes the store.
C7_NoKeyValidInput500 ==
    [][~apiKey =>
         /\ \A t \in TextInputs :
               PostBegin(t) =>
                  /\ ~TextInvalid(t) => last' = Response("POST", "noKey", 500)
                  /\ pending' = pending
                  /\ analyses' = analyses
         /\ \A i \in IdInputs, t \in TextInputs :
               PutBegin(i, t) =>
                  /\ IF Truthy(i) /\ MapHas(analyses, i.val) /\ ~TextInvalid(t)
                     THEN last' = Response("PUT", "noKey", 500)
                     ELSE last'.status \in {400, 404}
                  /\ pending' = pending
                  /\ analyses' = analyses
         /\ pending = EmptyBag]_vars

\* without the credential, a POST has just been answered 500
C7_Witness ==
    /\ ~apiKey
    /\ last = Response("POST", "noKey", 500)

\* the step is a PUT that answers 200 for k, or a DELETE that answers 204 for k
\* (a DELETE acts on DeleteId(q, b) alone, so the one with k in its query stands
\* for all of them)
Writes(k) ==
    \/ /\ Sends("PUT") /\ last'.status = 200
       /\ \E r \in ProviderOutcomes, now \in Times : PutResume(k, r, now)
    \/ /\ Sends("DELETE") /\ last'.status = 204
       /\ Delete(Str(k), Undefined)

\* C8: GET with an id answers 200 with exactly the record stored under the id, or
\* 404 with "Analysis with id <id> not found." when there is none; the record a
\* POST answered 201 with is what a GET of its id returns for as long as no PUT
\* and no DELETE writes that id.
C8_ReadReturnsStored ==
    /\ [](\A q \in IdInputs : (Idle /\ Truthy(q)) =>
            IF \E i \in 1..Len(analyses) : analyses[i].key = q.val
            THEN /\ GetStatus(analyses, q) = 200
                 /\ \E i \in 1..Len(analyses) :
                       analyses[i].key = q.val /\ GetBody(analyses, q) = analyses[i].value
            ELSE /\ GetStatus(analyses, q) = 404
                 /\ DOMAIN GetBody(analyses, q) = {"message"})
    /\ [](GetBody(analyses, Str("doesnotexist"))
             = [message |-> "Analysis with id doesnotexist not found."])
    /\ [][/\ (Sends("POST") /\ last'.status = 201) =>
               \A r \in ProviderOutcomes, now \in Times :
                  PostResume(r, now) =>
                     /\ GetStatus(analyses', Str(PostBody(r, AnalysisId(uuids), now).id)) = 200
                     /\ GetBody(analyses', Str(PostBody(r, AnalysisId(uuids), now).id))
                           = PostBody(r, AnalysisId(uuids), now)
          /\ analyses' # analyses =>
               \A k \in IssuedIds :
                  (MapHas(analyses, k) /\ ~Writes(k)) =>
                     /\ GetStatus(analyses', Str(k)) = 200
                     /\ GetBody(analyses', Str(k)) = GetBody(analyses, Str(k))]_vars

\* a GET has just answered 200 with one of two records, none ever deleted and no
\* request suspended
C8_Witness ==
    /\ last = Response("GET", "one", 200)
    /\ Len(analyses) = 2
    /\ deleted = {}
    /\ pending = EmptyBag
    /\ analyses[1].value.timestamp < analyses[2].value.timestamp

\* C10: a PUT with no id in its body, or a DELETE with no id in its query and
\* none in its body, answers 400 whatever the store holds; a PUT or a DELETE
\* whose id is no key of the store answers 404; none of them calls the provider
\* or changes the store.
C10_IdValidation ==
    /\ [](Idle =>
            /\ \A i \in IdInputs, t \in TextInputs :
                  /\ ~Truthy(i) =>
                        /\ PutCheck(analyses, apiKey, i, t) = "noId"
                        /\ PutCheck(<<>>, apiKey, i, t) = "noId"
                        /\ PutEarlyStatus(analyses, apiKey, i, t) = 400
                  /\ (Truthy(i) /\ ~MapHas(analyses, i.val)) =>
                        /\ PutCheck(analyses, apiKey, i, t) = "notFound"
                        /\ PutEarlyStatus(analyses, apiKey, i, t) = 404
            /\ \A q \in IdInputs, b \in IdInputs :
                  /\ (~Truthy(q) /\ ~Truthy(b)) =>
                        /\ DeleteCheck(<<>>, DeleteId(q, b)) = "noId"
                        /\ DeleteStatus(analyses, DeleteId(q, b)) = 400
                  /\ \A id \in {q, b} :
                        (Truthy(id) /\ DeleteId(q, b) = id /\ ~MapHas(analyses, id.val)) =>
                           DeleteStatus(analyses, DeleteId(q, b)) = 404)
    /\ [][(/\ Sends("PUT") \/ Sends("DELETE")
           /\ last'.path \in {"noId", "notFound"}) =>
             /\ last'.status = IF last'.path = "noId" THEN 400 ELSE 404
             /\ pending' = pending
             /\ analyses' = analyses]_vars

\* a PUT with no id has just been answered 400 by a store that holds a record
C10_Witness ==
    /\ last = Response("PUT", "noId", 400)
    /\ Len(analyses) >= 1
\* C11: whenever POST /api/analyze answers with a success status, analyzeText
\* resolves, and the value it resolves to carries ozet, temelFikirler, duyguTonu
\* and yenidenYazilmisMetin at its top level; so does every value App hands to
\* AnalysisResult.
C11_ResolvedValueHasAnalysisFields ==
    /\ \A i \in 1..Len(calls) :
          (calls[i].stage = "response" /\ ResponseOk(calls[i].status)) =>
             /\ AnalyzeText(calls[i]).kind = "resolved"
             /\ AnalysisFields \subseteq DOMAIN AnalyzeText(calls[i]).value
    /\ analysisResult # Null => AnalysisFields \subseteq DOMAIN analysisResult

\* C12: isLoading is true exactly while one analyzeText call is in flight, no
\* two calls are in flight at a time, error and analysisResult are null while
\* loading, and the step in which a call settles leaves isLoading false and
\* exactly one of error and analysisResult non-null.
C12_LoadingWhileOneCallInFlight ==
    /\ [](/\ Len(calls) <= 1
          /\ isLoading <=> Len(calls) = 1
          /\ isLoading => (error = Null /\ analysisResult = Null))
    /\ [][Len(calls') < Len(calls) =>
            /\ ~isLoading'
            /\ (error' = Null) # (analysisResult' = Null)]_vars

\* a call made after the text was edited has settled with an error, which is all
\* the page shows
C12_Witness ==
    /\ ~isLoading
    /\ calls = <<>>
    /\ error # Null
    /\ analysisResult = Null
    /\ inputText # ExampleText

====
